---- MODULE Spec2Model ----
(***************************************************************************)
(* A replicated map (toy CRDT) kept by a full mesh of peers.  Two merge    *)
(* rules are modelled: the last-writer-wins rule of BrokenMap (the same    *)
(* rule as the Map of main.rs) and the causal-context rule of FixedMap.    *)
(* The Peer and the clients of main.rs drive either rule through the Map   *)
(* trait of map.rs (set returns (context, timestamp), delete returns an    *)
(* optional context).                                                      *)
(*                                                                         *)
(* chars are modelled by their code points, Option<T> by a sequence of     *)
(* length 0 (None) or 1 (Some), a Vec<Timestamp> context by the set of its *)
(* elements (the code only asks contains / max / [0] of a one-element vec).*)
(***************************************************************************)
EXTENDS Integers, Sequences, FiniteSets, TLC

VARIABLES
  cfg,           \* ModelCfg plus the map variant the servers run
  actor_states,  \* ActorModelState.actor_states: one state per actor id
  network,       \* ActorModelState.network: ordered, one FIFO per (src, dst)
  applied,       \* history: the sync messages each server has applied so far
  issued         \* history: the versions each server's set has issued, in order

vars == <<cfg, actor_states, network, applied, issued>>

None == <<>>
Some(x) == <<x>>

(***************************************************************************)
(* Program constants.                                                      *)
(***************************************************************************)
KeyB == 98
CharA == 65
CharZ == 90
PutCount == 2
DeleteCount == 2
DefaultServers == 2
DefaultPutClients == 2
DefaultDeleteClients == 2

(***************************************************************************)
(* Timestamp = (u32, usize), ordered as a tuple; an entry is               *)
(* (Timestamp, char, char), ordered as a tuple (BTreeSet order).           *)
(***************************************************************************)
TimestampLt(a, b) == a[1] < b[1] \/ (a[1] = b[1] /\ a[2] < b[2])

EntryLt(a, b) ==
  \/ TimestampLt(a[1], b[1])
  \/ a[1] = b[1] /\ a[2] < b[2]
  \/ a[1] = b[1] /\ a[2] = b[2] /\ a[3] < b[3]

\* Iterator::max over a non-empty collection of timestamps
MaxTimestamp(S) == CHOOSE t \in S : \A u \in S : u = t \/ TimestampLt(u, t)

\* Iterator::find over a BTreeSet: the first match in ascending order
FindFirst(S) == CHOOSE e \in S : \A f \in S : f = e \/ EntryLt(e, f)

Max(a, b) == IF a >= b THEN a ELSE b

(***************************************************************************)
(* BrokenMap (map_broken.rs); main.rs's Map is the same code with the      *)
(* context vectors unwrapped.                                              *)
(***************************************************************************)
BrokenMap_new(actor_id) == [actor_id |-> actor_id, max_op |-> 0, values |-> {}]

BrokenMap_update_max_op(m, timestamp) ==
  [m EXCEPT !.max_op = Max(m.max_op, timestamp[1])]

\* mutant: the counter is not advanced before the version is made
BrokenMap_new_timestamp_same_counter(m) ==
  [map |-> m, timestamp |-> <<m.max_op, m.actor_id>>]

BrokenMap_new_timestamp(m) ==
  [map |-> [m EXCEPT !.max_op = m.max_op + 1],
   timestamp |-> <<m.max_op + 1, m.actor_id>>]

BrokenMap_get(m, k) ==
  LET found == {e \in m.values : e[2] = k}
  IN  IF found = {} THEN None ELSE Some(FindFirst(found)[3])

BrokenMap_set(m, key, v) ==
  LET nt == BrokenMap_new_timestamp(m)
      found == {e \in nt.map.values : e[2] = key}
      kept == IF found = {} THEN nt.map.values
              ELSE nt.map.values \ {FindFirst(found)}
  IN  [map |-> [nt.map EXCEPT !.values = kept \cup {<<nt.timestamp, key, v>>}],
       context |-> {},
       timestamp |-> nt.timestamp]

\* mutant: the version is reported but the entry is left in the map
BrokenMap_delete_keeping_entry(m, key) ==
  LET found == {e \in m.values : e[2] = key}
  IN  IF found # {}
      THEN [map |-> m, context |-> Some({FindFirst(found)[1]})]
      ELSE [map |-> m, context |-> None]

BrokenMap_delete(m, key) ==
  LET found == {e \in m.values : e[2] = key}
  IN  IF found # {}
      THEN [map |-> [m EXCEPT !.values = m.values \ {FindFirst(found)}],
            context |-> Some({FindFirst(found)[1]})]
      ELSE [map |-> m, context |-> None]

\* mutant: the previous entries of the key are not removed before the insert
BrokenMap_receive_set_keeping_previous(m, context, timestamp, key, value) ==
  LET m1 == BrokenMap_update_max_op(m, timestamp)
      previous == {e \in m1.values : e[2] = key}
  IN  IF previous = {} \/ \A p \in previous : TimestampLt(p[1], timestamp)
      THEN [m1 EXCEPT !.values = m1.values \cup {<<timestamp, key, value>>}]
      ELSE m1

\* mutant: the incoming entry replaces the previous ones whatever their versions
BrokenMap_receive_set_unconditional(m, context, timestamp, key, value) ==
  LET m1 == BrokenMap_update_max_op(m, timestamp)
      previous == {e \in m1.values : e[2] = key}
  IN  [m1 EXCEPT !.values = (m1.values \ previous) \cup {<<timestamp, key, value>>}]

\* mutant: the counter is left as it was
BrokenMap_receive_set_counter_kept(m, context, timestamp, key, value) ==
  LET previous == {e \in m.values : e[2] = key}
  IN  IF previous = {} \/ \A p \in previous : TimestampLt(p[1], timestamp)
      THEN [m EXCEPT !.values = (m.values \ previous) \cup {<<timestamp, key, value>>}]
      ELSE m

BrokenMap_receive_set(m, context, timestamp, key, value) ==
  LET m1 == BrokenMap_update_max_op(m, timestamp)
      previous == {e \in m1.values : e[2] = key}
  IN  IF previous = {} \/ \A p \in previous : TimestampLt(p[1], timestamp)
      THEN [m1 EXCEPT !.values = (m1.values \ previous) \cup {<<timestamp, key, value>>}]
      ELSE m1

\* timestamp is the one-element vector delete returned; timestamp[0] is its element
BrokenMap_receive_delete(m, timestamp) ==
  LET t0 == CHOOSE t \in timestamp : \A u \in timestamp : u = t \/ TimestampLt(t, u)
      m1 == BrokenMap_update_max_op(m, t0)
      found == {e \in m1.values : e[1] = t0}
  IN  IF found # {}
      THEN [m1 EXCEPT !.values = m1.values \ {FindFirst(found)}]
      ELSE m1

(***************************************************************************)
(* FixedMap (map_fixed.rs).                                                *)
(***************************************************************************)
FixedMap_new(actor_id) == [actor_id |-> actor_id, max_op |-> 0, values |-> {}]

\* mutant: the counter is set to the incoming counter, not to the greater of the two
FixedMap_update_max_op_overwrite(m, timestamp) ==
  [m EXCEPT !.max_op = timestamp[1]]

FixedMap_update_max_op(m, timestamp) ==
  [m EXCEPT !.max_op = Max(m.max_op, timestamp[1])]

FixedMap_new_timestamp(m) ==
  [map |-> [m EXCEPT !.max_op = m.max_op + 1],
   timestamp |-> <<m.max_op + 1, m.actor_id>>]

\* mutant: get finds nothing
FixedMap_get_nothing(m, key) == None

\* mutant: the first entry of the key is read, as the unsafe get reads it
FixedMap_get_first_match(m, key) ==
  LET found == {e \in m.values : e[2] = key}
  IN  IF found = {} THEN None ELSE Some(FindFirst(found)[3])

\* mutant: the versions are compared by replica identity first, then by counter
FixedMap_get_highest_replica(m, key) ==
  LET found == {e \in m.values : e[2] = key}
  IN  IF found = {} THEN None
      ELSE Some((CHOOSE e \in found :
                   \A f \in found :
                     \/ f = e
                     \/ f[1][2] < e[1][2]
                     \/ (f[1][2] = e[1][2] /\ f[1][1] < e[1][1]))[3])

FixedMap_get(m, key) ==
  LET big_t == {e[1] : e \in {f \in m.values : f[2] = key}}
  IN  IF big_t = {} THEN None
      ELSE LET max_t == MaxTimestamp(big_t)
           IN  Some(FindFirst({e \in m.values : e[2] = key /\ e[1] = max_t})[3])

\* mutant: the unsafe set, one previous entry removed and no context returned
FixedMap_set_first_only(m, key, value) ==
  LET nt == FixedMap_new_timestamp(m)
      found == {e \in nt.map.values : e[2] = key}
      kept == IF found = {} THEN nt.map.values
              ELSE nt.map.values \ {FindFirst(found)}
  IN  [map |-> [nt.map EXCEPT !.values = kept \cup {<<nt.timestamp, key, value>>}],
       context |-> {},
       timestamp |-> nt.timestamp]

FixedMap_set(m, key, value) ==
  LET big_t == {e[1] : e \in {f \in m.values : f[2] = key}}
      nt == FixedMap_new_timestamp(m)
      kept == {e \in nt.map.values : e[1] \notin big_t}
  IN  [map |-> [nt.map EXCEPT !.values = kept \cup {<<nt.timestamp, key, value>>}],
       context |-> big_t,
       timestamp |-> nt.timestamp]

FixedMap_delete(m, key) ==
  LET big_t == {e[1] : e \in {f \in m.values : f[2] = key}}
  IN  [map |-> [m EXCEPT !.values = {e \in m.values : e[1] \notin big_t}],
       context |-> Some(big_t)]

\* mutant: the entries named by the context are kept
FixedMap_receive_set_keeping_context(m, context, timestamp, key, value) ==
  LET m1 == FixedMap_update_max_op(m, timestamp)
  IN  [m1 EXCEPT !.values = m1.values \cup {<<timestamp, key, value>>}]

\* mutant: the received write is stamped afresh, as a local set stamps it
FixedMap_receive_set_restamped(m, context, timestamp, key, value) ==
  FixedMap_set(m, key, value).map

\* mutant: the unsafe rule, the incoming entry is applied only when it is the newest
FixedMap_receive_set_newest_wins(m, context, timestamp, key, value) ==
  LET m1 == FixedMap_update_max_op(m, timestamp)
      previous == {e \in m1.values : e[2] = key}
  IN  IF previous = {} \/ \A p \in previous : TimestampLt(p[1], timestamp)
      THEN [m1 EXCEPT !.values = (m1.values \ previous) \cup {<<timestamp, key, value>>}]
      ELSE m1

\* mutant: the counter is left as it was
FixedMap_receive_set_counter_kept(m, context, timestamp, key, value) ==
  [m EXCEPT !.values =
     {e \in m.values : e[1] \notin context} \cup {<<timestamp, key, value>>}]

FixedMap_receive_set(m, context, timestamp, key, value) ==
  LET m1 == FixedMap_update_max_op(m, timestamp)
  IN  [m1 EXCEPT !.values =
         {e \in m1.values : e[1] \notin context} \cup {<<timestamp, key, value>>}]

FixedMap_receive_delete(m, context) ==
  LET m1 == IF context # {} THEN FixedMap_update_max_op(m, MaxTimestamp(context))
            ELSE m
  IN  [m1 EXCEPT !.values = {e \in m1.values : e[1] \notin context}]

(***************************************************************************)
(* The Map trait (map.rs): the variant picks the implementation.           *)
(***************************************************************************)
Variants == {"broken", "fixed"}

Map_new(variant, actor_id) ==
  IF variant = "fixed" THEN FixedMap_new(actor_id) ELSE BrokenMap_new(actor_id)

Map_get(variant, m, k) ==
  IF variant = "fixed" THEN FixedMap_get(m, k) ELSE BrokenMap_get(m, k)

Map_set(variant, m, key, v) ==
  IF variant = "fixed" THEN FixedMap_set(m, key, v) ELSE BrokenMap_set(m, key, v)

Map_delete(variant, m, key) ==
  IF variant = "fixed" THEN FixedMap_delete(m, key) ELSE BrokenMap_delete(m, key)

Map_receive_set(variant, m, context, timestamp, key, value) ==
  IF variant = "fixed" THEN FixedMap_receive_set(m, context, timestamp, key, value)
  ELSE BrokenMap_receive_set(m, context, timestamp, key, value)

Map_receive_delete(variant, m, context) ==
  IF variant = "fixed" THEN FixedMap_receive_delete(m, context)
  ELSE BrokenMap_receive_delete(m, context)

(***************************************************************************)
(* Messages (MyRegisterMsg, PeerMsg).                                      *)
(***************************************************************************)
Put(id, value) == [type |-> "Put", id |-> id, value |-> value]
Get(id) == [type |-> "Get", id |-> id]
Delete(id) == [type |-> "Delete", id |-> id]
PutOk(id) == [type |-> "PutOk", id |-> id]
GetOk(id, value) == [type |-> "GetOk", id |-> id, value |-> value]
DeleteOk(id) == [type |-> "DeleteOk", id |-> id]
PutSync(context, timestamp, key, value) ==
  [type |-> "PutSync", context |-> context, timestamp |-> timestamp,
   key |-> key, value |-> value]
DeleteSync(context) == [type |-> "DeleteSync", context |-> context]

SyncTypes == {"PutSync", "DeleteSync"}
RequestTypes == {"Put", "Get", "Delete"}

\* Out::send and Out::broadcast: the envelopes a step emits, in order
Send(dst, msg) == <<[dst |-> dst, msg |-> msg]>>
\* mutant: the last peer is left out of a broadcast
Broadcast_but_last(peers, msg) ==
  [i \in 1..(Len(peers) - 1) |-> [dst |-> peers[i], msg |-> msg]]

Broadcast(peers, msg) == [i \in 1..Len(peers) |-> [dst |-> peers[i], msg |-> msg]]

\* stateright's model_peers(i, n): every server id but i, ascending
RECURSIVE model_peers_from(_, _, _)
model_peers_from(j, i, n) ==
  IF j >= n THEN <<>>
  ELSE IF j = i THEN model_peers_from(j + 1, i, n)
  ELSE <<j>> \o model_peers_from(j + 1, i, n)

model_peers(i, n) == model_peers_from(0, i, n)

(***************************************************************************)
(* Peer (main.rs), over the Map trait.                                     *)
(***************************************************************************)
Peer_on_start(variant, id) == Map_new(variant, id)

\* mutant: a received PutSync is passed on to the peers
Peer_on_msg_relaying(variant, peers, state, src, msg) ==
  CASE msg.type = "Put" ->
         LET r == Map_set(variant, state, KeyB, msg.value)
         IN  [state |-> r.map,
              out |-> Send(src, PutOk(msg.id))
                      \o Broadcast(peers, PutSync(r.context, r.timestamp, KeyB, msg.value))]
    [] msg.type = "Get" ->
         LET v == Map_get(variant, state, KeyB)
         IN  [state |-> state,
              out |-> IF v # None THEN Send(src, GetOk(msg.id, v[1])) ELSE <<>>]
    [] msg.type = "Delete" ->
         LET r == Map_delete(variant, state, KeyB)
         IN  [state |-> r.map,
              out |-> Send(src, DeleteOk(msg.id))
                      \o (IF r.context # None
                          THEN Broadcast(peers, DeleteSync(r.context[1]))
                          ELSE <<>>)]
    [] msg.type = "PutSync" ->
         [state |-> Map_receive_set(variant, state, msg.context, msg.timestamp,
                                    msg.key, msg.value),
          out |-> Broadcast(peers, msg)]
    [] msg.type = "DeleteSync" ->
         [state |-> Map_receive_delete(variant, state, msg.context), out |-> <<>>]
    [] OTHER -> [state |-> state, out |-> <<>>]

Peer_on_msg(variant, peers, state, src, msg) ==
  CASE msg.type = "Put" ->
         LET r == Map_set(variant, state, KeyB, msg.value)
         IN  [state |-> r.map,
              out |-> Send(src, PutOk(msg.id))
                      \o Broadcast(peers, PutSync(r.context, r.timestamp, KeyB, msg.value))]
    [] msg.type = "Get" ->
         LET v == Map_get(variant, state, KeyB)
         IN  [state |-> state,
              out |-> IF v # None THEN Send(src, GetOk(msg.id, v[1])) ELSE <<>>]
    [] msg.type = "Delete" ->
         LET r == Map_delete(variant, state, KeyB)
         IN  [state |-> r.map,
              out |-> Send(src, DeleteOk(msg.id))
                      \o (IF r.context # None
                          THEN Broadcast(peers, DeleteSync(r.context[1]))
                          ELSE <<>>)]
    [] msg.type = "PutSync" ->
         [state |-> Map_receive_set(variant, state, msg.context, msg.timestamp,
                                    msg.key, msg.value),
          out |-> <<>>]
    [] msg.type = "DeleteSync" ->
         [state |-> Map_receive_delete(variant, state, msg.context), out |-> <<>>]
    [] OTHER -> [state |-> state, out |-> <<>>]

(***************************************************************************)
(* MyRegisterActor: the servers and the two kinds of client.               *)
(***************************************************************************)
ActorIds(c) == 0 .. (c.servers + c.put_clients + c.delete_clients - 1)
ServerIds(c) == 0 .. (c.servers - 1)
PutClientIds(c) == c.servers .. (c.servers + c.put_clients - 1)
DeleteClientIds(c) ==
  (c.servers + c.put_clients) .. (c.servers + c.put_clients + c.delete_clients - 1)

\* ModelCfg::into_actor_model: servers first, then put clients, then delete clients
Actor(c, id) ==
  IF id \in ServerIds(c)
  THEN [kind |-> "Server", peers |-> model_peers(id, c.servers)]
  ELSE IF id \in PutClientIds(c)
  THEN [kind |-> "PutClient", put_count |-> PutCount,
        intermediate_gets |-> c.intermediate_gets, server_count |-> c.servers]
  ELSE [kind |-> "DeleteClient", delete_count |-> DeleteCount,
        intermediate_gets |-> c.intermediate_gets, server_count |-> c.servers]

MyRegisterActor_on_start(c, id) ==
  LET a == Actor(c, id)
      index == id
  IN  CASE a.kind = "PutClient" ->
             IF a.put_count > 0
             THEN [state |-> [kind |-> "PutClient", awaiting |-> Some(index), op_count |-> 1],
                   out |-> Send(index % a.server_count,
                                Put(index, CharA + (index % a.server_count)))]
             ELSE [state |-> [kind |-> "PutClient", awaiting |-> None, op_count |-> 0],
                   out |-> <<>>]
        [] a.kind = "DeleteClient" ->
             IF a.delete_count > 0
             THEN [state |-> [kind |-> "DeleteClient", awaiting |-> Some(index), op_count |-> 1],
                   out |-> Send(index % a.server_count, Delete(index))]
             ELSE [state |-> [kind |-> "DeleteClient", awaiting |-> None, op_count |-> 0],
                   out |-> <<>>]
        [] OTHER ->
             [state |-> [kind |-> "Server", map |-> Peer_on_start(c.variant, id)],
              out |-> <<>>]

\* mutant: a PutOk advances the client whatever its request id
PutClient_on_msg_any_PutOk(a, id, state, src, msg) ==
  LET index == id
      op_count == state.op_count
      unique_request_id == (op_count + 1) * index
      stay == [state |-> state, out |-> <<>>]
  IN  IF state.awaiting = None THEN stay
      ELSE IF msg.type = "PutOk"
      THEN IF op_count < a.put_count
           THEN [state |-> [kind |-> "PutClient", awaiting |-> Some(unique_request_id),
                            op_count |-> op_count + 1],
                 out |-> Send(index % a.server_count,
                              Put(unique_request_id, CharZ - (index % a.server_count)))]
           ELSE IF a.intermediate_gets
           THEN [state |-> [kind |-> "PutClient", awaiting |-> Some(unique_request_id),
                            op_count |-> op_count + 1],
                 out |-> Send(index % a.server_count, Get(unique_request_id))]
           ELSE [state |-> [kind |-> "PutClient", awaiting |-> None,
                            op_count |-> op_count + 1],
                 out |-> <<>>]
      ELSE IF msg.type = "GetOk" /\ msg.id = state.awaiting[1]
      THEN [state |-> [kind |-> "PutClient", awaiting |-> None, op_count |-> op_count + 1],
            out |-> <<>>]
      ELSE stay

PutClient_on_msg(a, id, state, src, msg) ==
  LET index == id
      op_count == state.op_count
      unique_request_id == (op_count + 1) * index
      stay == [state |-> state, out |-> <<>>]
  IN  IF state.awaiting = None THEN stay
      ELSE IF msg.type = "PutOk" /\ msg.id = state.awaiting[1]
      THEN IF op_count < a.put_count
           THEN [state |-> [kind |-> "PutClient", awaiting |-> Some(unique_request_id),
                            op_count |-> op_count + 1],
                 out |-> Send(index % a.server_count,
                              Put(unique_request_id, CharZ - (index % a.server_count)))]
           ELSE IF a.intermediate_gets
           THEN [state |-> [kind |-> "PutClient", awaiting |-> Some(unique_request_id),
                            op_count |-> op_count + 1],
                 out |-> Send(index % a.server_count, Get(unique_request_id))]
           ELSE [state |-> [kind |-> "PutClient", awaiting |-> None,
                            op_count |-> op_count + 1],
                 out |-> <<>>]
      ELSE IF msg.type = "GetOk" /\ msg.id = state.awaiting[1]
      THEN [state |-> [kind |-> "PutClient", awaiting |-> None, op_count |-> op_count + 1],
            out |-> <<>>]
      ELSE stay

DeleteClient_on_msg(a, id, state, src, msg) ==
  LET index == id
      op_count == state.op_count
      unique_request_id == (op_count + 1) * index
      stay == [state |-> state, out |-> <<>>]
  IN  IF state.awaiting = None THEN stay
      ELSE IF msg.type = "PutOk" THEN stay
      ELSE IF msg.type = "GetOk" /\ msg.id = state.awaiting[1]
      THEN [state |-> [kind |-> "DeleteClient", awaiting |-> None, op_count |-> op_count + 1],
            out |-> <<>>]
      ELSE IF msg.type = "DeleteOk" /\ msg.id = state.awaiting[1]
      THEN IF op_count < a.delete_count
           THEN [state |-> state,
                 out |-> Send(index % a.server_count, Delete(unique_request_id))]
           ELSE IF a.intermediate_gets
           THEN [state |-> [kind |-> "DeleteClient", awaiting |-> Some(unique_request_id),
                            op_count |-> op_count + 1],
                 out |-> Send(index % a.server_count, Get(unique_request_id))]
           ELSE [state |-> [kind |-> "DeleteClient", awaiting |-> None,
                            op_count |-> op_count + 1],
                 out |-> <<>>]
      ELSE stay

MyRegisterActor_on_msg(c, id, state, src, msg) ==
  LET a == Actor(c, id)
  IN  CASE a.kind = "PutClient" /\ state.kind = "PutClient" ->
             PutClient_on_msg(a, id, state, src, msg)
        [] a.kind = "DeleteClient" /\ state.kind = "DeleteClient" ->
             DeleteClient_on_msg(a, id, state, src, msg)
        [] a.kind = "Server" /\ state.kind = "Server" ->
             LET r == Peer_on_msg(c.variant, a.peers, state.map, src, msg)
             IN  [state |-> [kind |-> "Server", map |-> r.state], out |-> r.out]
        [] OTHER -> [state |-> state, out |-> <<>>]

(***************************************************************************)
(* The actor model: ActorModelState after every on_start, and one step per *)
(* delivery of the message at the head of a (src, dst) queue.              *)
(***************************************************************************)
ModelCfg(variant, servers, put_clients, delete_clients, intermediate_gets, history) ==
  [variant |-> variant, servers |-> servers, put_clients |-> put_clients,
   delete_clients |-> delete_clients, intermediate_gets |-> intermediate_gets,
   history |-> history]

\* the messages of `out` addressed to dst, in order
OutTo(out, dst) ==
  LET sel == SelectSeq(out, LAMBDA e : e.dst = dst)
  IN  [i \in 1..Len(sel) |-> sel[i].msg]

\* the flows of the network: every ordered pair of actors with a server at one end
\* (clients never address clients)
Flows(c) ==
  {p \in ActorIds(c) \X ActorIds(c) :
     p[1] # p[2] /\ (p[1] \in ServerIds(c) \/ p[2] \in ServerIds(c))}

InitCfg(c) ==
  /\ cfg = c
  /\ actor_states = [id \in ActorIds(c) |-> MyRegisterActor_on_start(c, id).state]
  /\ network = [p \in Flows(c) |-> OutTo(MyRegisterActor_on_start(c, p[1]).out, p[2])]
  /\ applied = [s \in ServerIds(c) |-> {}]
  /\ issued = [s \in ServerIds(c) |-> <<>>]

\* Network::iter_deliverable: the head of every non-empty flow
Deliverable(src, dst) == network[<<src, dst>>] # <<>>

HeadMsg(src, dst) == Head(network[<<src, dst>>])

\* Out's envelopes are appended, in order, to the flows from their sender
RECURSIVE Enqueue(_, _, _)
Enqueue(net, from, out) ==
  IF out = <<>> THEN net
  ELSE Enqueue([net EXCEPT ![<<from, Head(out).dst>>] = Append(@, Head(out).msg)],
               from, Tail(out))

\* the ordered network pops the delivered message and appends what the step sent
NetworkAfter(src, dst, out) ==
  Enqueue([network EXCEPT ![<<src, dst>>] = Tail(@)], dst, out)

\* the history of a server after it applied msg
AppliedAfter(dst, msg) ==
  IF cfg.history /\ dst \in ServerIds(cfg) /\ msg.type \in SyncTypes
  THEN [applied EXCEPT ![dst] = @ \cup {msg}]
  ELSE applied

\* the versions a server has issued, in issue order, after it handled msg:
\* Map::set returns the version new_timestamp issued
IssuedAfter(dst, msg) ==
  IF dst \in ServerIds(cfg) /\ msg.type = "Put"
  THEN [issued EXCEPT ![dst] =
          Append(@, Map_set(cfg.variant, actor_states[dst].map, KeyB, msg.value).timestamp)]
  ELSE issued

Deliver(src, dst) ==
  /\ Deliverable(src, dst)
  /\ LET msg == HeadMsg(src, dst)
         r == MyRegisterActor_on_msg(cfg, dst, actor_states[dst], src, msg)
     IN  /\ actor_states' = [actor_states EXCEPT ![dst] = r.state]
         /\ network' = NetworkAfter(src, dst, r.out)
         /\ applied' = AppliedAfter(dst, msg)
         /\ issued' = IssuedAfter(dst, msg)
  /\ UNCHANGED cfg

IsServer(id) == id < cfg.servers
IsPutClient(id) == cfg.servers <= id /\ id < cfg.servers + cfg.put_clients
IsDeleteClient(id) ==
  /\ cfg.servers + cfg.put_clients <= id
  /\ id < cfg.servers + cfg.put_clients + cfg.delete_clients

\* dst handles the message of the given type at the head of a flow
Delivers(dst, type) ==
  \E src \in ActorIds(cfg) \ {dst} :
    /\ Deliverable(src, dst)
    /\ HeadMsg(src, dst).type = type
    /\ Deliver(src, dst)

ServerPut(dst) == IsServer(dst) /\ Delivers(dst, "Put")
ServerGet(dst) == IsServer(dst) /\ Delivers(dst, "Get")
ServerDelete(dst) == IsServer(dst) /\ Delivers(dst, "Delete")
ServerPutSync(dst) == IsServer(dst) /\ Delivers(dst, "PutSync")
ServerDeleteSync(dst) == IsServer(dst) /\ Delivers(dst, "DeleteSync")

\* a client handles the message at the head of a flow from a server
PutClientReply(dst) ==
  IsPutClient(dst) /\ \E src \in ServerIds(cfg) : Deliver(src, dst)
DeleteClientReply(dst) ==
  IsDeleteClient(dst) /\ \E src \in ServerIds(cfg) : Deliver(src, dst)

\* every id an actor of a checked configuration can have
AllIds == 0 .. (DefaultServers + DefaultPutClients + DefaultDeleteClients)

\* the steps of a run without intermediate gets (no Get is ever sent)
Next ==
  \E dst \in AllIds :
    \/ ServerPut(dst)
    \/ ServerDelete(dst)
    \/ ServerPutSync(dst)
    \/ ServerDeleteSync(dst)
    \/ PutClientReply(dst)
    \/ DeleteClientReply(dst)

(***************************************************************************)
(* Bounds of the checked configurations.                                   *)
(***************************************************************************)
NumDeleteClients == 1

\* the safe variant on the harness of main.rs: 2 servers, 2 put clients
InitFixed ==
  InitCfg(ModelCfg("fixed", DefaultServers, DefaultPutClients, NumDeleteClients,
                   FALSE, FALSE))

SpecFixed == InitFixed /\ [][Next]_vars

\* the unsafe variant on the same harness
InitBroken ==
  InitCfg(ModelCfg("broken", DefaultServers, DefaultPutClients, NumDeleteClients,
                   FALSE, FALSE))

SpecBroken == InitBroken /\ [][Next]_vars

\* either variant on the harness configuration
InitHarness == InitFixed \/ InitBroken

SpecHarness == InitHarness /\ [][Next]_vars

\* either variant with the trailing Get enabled (intermediate_gets) and one put
\* client: the steps are those of Next and the handling of a Get
InitGets ==
  \E variant \in Variants :
    InitCfg(ModelCfg(variant, DefaultServers, 1, NumDeleteClients, TRUE, FALSE))

NextGets ==
  \/ Next
  \/ \E dst \in AllIds : ServerGet(dst)

SpecGets == InitGets /\ [][NextGets]_vars

\* the safe variant on three servers, with one client of each kind and the history on
InitThree == InitCfg(ModelCfg("fixed", DefaultServers + 1, 1, 1, FALSE, TRUE))

SpecThree == InitThree /\ [][Next]_vars

(***************************************************************************)
(* One map driven directly through the Map trait by every operation of a   *)
(* bounded universe: the replica state and merge algorithm on its own.     *)
(***************************************************************************)
MaxCounter == 3

\* the versions replicas 0 and 1 can issue with counters up to MaxCounter; each
\* version names one write (new_timestamp never repeats), of one key and value
Timestamps == (1..MaxCounter) \X (0..(DefaultServers - 1))
WriteOf(timestamp) ==
  <<timestamp, KeyB, IF timestamp[1] = 1 THEN CharA + timestamp[2] ELSE CharZ - timestamp[2]>>
\* a context holds at most one version of each issuing replica
Contexts ==
  {c \in SUBSET Timestamps : \A t \in c, u \in c : t[2] = u[2] => t = u}
\* the context of a PutSync is what the sender held when new_timestamp issued the
\* version, so its counters are below the version's
PutSyncs ==
  {PutSync(p[1], p[2], WriteOf(p[2])[2], WriteOf(p[2])[3]) :
     p \in {q \in Contexts \X Timestamps : \A t \in q[1] : t[1] < q[2][1]}}
DeleteSyncs == {DeleteSync(context) : context \in Contexts}
Keys == {KeyB}
Values == {CharA, CharZ}

TheMap == actor_states[0].map

MapBecomes(m) ==
  /\ actor_states' = [actor_states EXCEPT ![0].map = m]
  /\ UNCHANGED <<cfg, network, applied, issued>>

MapSet(key, value) ==
  /\ TheMap.max_op < MaxCounter
  /\ MapBecomes(Map_set(cfg.variant, TheMap, key, value).map)

MapDelete(key) ==
  /\ key \in Keys
  /\ MapBecomes(Map_delete(cfg.variant, TheMap, key).map)

MapReceiveSet(msg) ==
  /\ msg.type = "PutSync"
  /\ MapBecomes(Map_receive_set(cfg.variant, TheMap, msg.context, msg.timestamp,
                                msg.key, msg.value))

\* BrokenMap::receive_delete reads timestamp[0] of the one-element vector
\* BrokenMap::delete returns
MapReceiveDelete(msg) ==
  /\ cfg.variant = "broken" => Cardinality(msg.context) = 1
  /\ MapBecomes(Map_receive_delete(cfg.variant, TheMap, msg.context))

NextMap ==
  \/ \E key \in Keys, value \in Values : MapSet(key, value)
  \/ \E key \in Keys : MapDelete(key)
  \/ \E msg \in PutSyncs : MapReceiveSet(msg)
  \/ \E msg \in DeleteSyncs : MapReceiveDelete(msg)

InitMap == \E variant \in Variants : InitCfg(ModelCfg(variant, 1, 0, 0, FALSE, FALSE))

SpecMap == InitMap /\ [][NextMap]_vars

\* the unsafe variant again, every run going on while a message can be delivered
SpecBrokenFair == InitBroken /\ [][Next]_vars /\ WF_vars(Next)

(***************************************************************************)
(* A network that may deliver again a PutSync a server has already applied *)
(* (a duplicating network), on the safe variant with one client of each    *)
(* kind and the history on.                                                *)
(***************************************************************************)
RedeliverPutSync(dst) ==
  /\ IsServer(dst)
  /\ \E msg \in applied[dst] :
       /\ msg.type = "PutSync"
       /\ LET r == MyRegisterActor_on_msg(cfg, dst, actor_states[dst], msg.timestamp[2], msg)
          IN  /\ actor_states' = [actor_states EXCEPT ![dst] = r.state]
              /\ network' = Enqueue(network, dst, r.out)
  /\ UNCHANGED <<cfg, applied, issued>>

NextDup ==
  \/ Next
  \/ \E dst \in AllIds : RedeliverPutSync(dst)

InitDup == InitCfg(ModelCfg("fixed", DefaultServers, 1, 1, FALSE, TRUE))

SpecDup == InitDup /\ [][NextDup]_vars

(***************************************************************************)
(* The properties the harness evaluates (main.rs).                         *)
(***************************************************************************)
ValuesOf(s) == actor_states[s].map.values
MaxOpOf(s) == actor_states[s].map.max_op

\* actors.windows(2): only two adjacent servers are compared
all_same_state ==
  \A i \in ActorIds(cfg) :
    (i \in ServerIds(cfg) /\ i + 1 \in ServerIds(cfg)) => ValuesOf(i) = ValuesOf(i + 1)

only_one_of_each_key ==
  \A s \in ServerIds(cfg) :
    Cardinality({e[2] : e \in ValuesOf(s)}) = Cardinality(ValuesOf(s))

SyncDeliverable ==
  \E p \in DOMAIN network : Deliverable(p[1], p[2]) /\ HeadMsg(p[1], p[2]).type \in SyncTypes

syncing_done_and_in_sync == SyncDeliverable \/ all_same_state

\* a message of one of the types is somewhere in the network
InFlight(types) ==
  \E p \in DOMAIN network : \E i \in 1..Len(network[p]) : network[p][i].type \in types

\* every message has been delivered: nothing is left in the network
Quiescent == \A p \in DOMAIN network : network[p] = <<>>

AllServersAgree == \A s \in ServerIds(cfg), t \in ServerIds(cfg) : ValuesOf(s) = ValuesOf(t)

\* the first request of client c is still waiting in the network
FirstRequestWaiting(c) ==
  LET flow == network[<<c, c % cfg.servers>>]
  IN  flow # <<>> /\ Head(flow).id = c

\* the first request of client c has been handled and c has sent nothing since
OnlyFirstRequestHandled(c) ==
  /\ network[<<c, c % cfg.servers>>] = <<>>
  /\ actor_states[c].op_count = 1

(***************************************************************************)
(* Claims                                                                  *)
(***************************************************************************)

\* C1: safe variant, three replicas, FIFO per pair only: once every message has
\* been delivered (no sync message in flight, no request outstanding), all
\* replicas hold the same entries.
C1_ThreeReplicasConverge ==
  (cfg.variant = "fixed" /\ Quiescent) => AllServersAgree

\* C2: safe variant, two replicas, ordered network: whenever no PutSync and no
\* DeleteSync is deliverable, the two replicas hold the same entries (the
\* harness property syncing_done_and_in_sync).
C2_InSyncWhenSyncingDone ==
  (cfg.variant = "fixed" /\ cfg.servers = DefaultServers) => syncing_done_and_in_sync

\* the two replicas wrote concurrently, every sync message has been applied, and
\* the replicas hold the two writes
C2_Witness ==
  /\ cfg.variant = "fixed"
  /\ ~SyncDeliverable
  /\ Cardinality(ValuesOf(0)) = 2
  /\ ValuesOf(0) = ValuesOf(1)
  /\ MaxOpOf(0) >= 2

\* C3: safe variant: in every reachable state every replica holds at most one
\* entry per key.
C3_SafeOneEntryPerKey == cfg.variant = "fixed" => only_one_of_each_key

\* Scenario A: clients 2 and 3 put 'A' at R0 and 'B' at R1, each replica issuing
\* counter 1 (neither had seen the other's write); nothing else has been handled
\* and both PutSyncs have been delivered.
ScenarioA_Settled ==
  /\ cfg.variant = "fixed"
  /\ \A c \in PutClientIds(cfg) : OnlyFirstRequestHandled(c)
  /\ \A c \in DeleteClientIds(cfg) : FirstRequestWaiting(c)
  /\ MaxOpOf(0) = 1 /\ MaxOpOf(1) = 1
  /\ ~InFlight(SyncTypes)

\* C4: after Scenario A each replica holds exactly one entry for the key, the one
\* with the greater version (1, 1); the losing entry (1, 0) is held by no replica.
C4_ScenarioA_OneWinner ==
  ScenarioA_Settled =>
    \A s \in ServerIds(cfg) : ValuesOf(s) = {<<<<1, 1>>, KeyB, CharA + 1>>}

\* the versions named by the context of a sync message some server has applied
SupersededVersions ==
  UNION {msg.context : msg \in UNION {applied[s] : s \in ServerIds(cfg)}}

\* C5: safe variant, at quiescence: no replica holds a version that a delivered
\* PutSync or DeleteSync named in its context (so the entry a replica put and then
\* deleted is held nowhere), and R0 and R1 hold the same entries.
C5_NoResurrection ==
  (cfg.variant = "fixed" /\ Quiescent) =>
    /\ \A s \in ServerIds(cfg) : \A e \in ValuesOf(s) : e[1] \notin SupersededVersions
    /\ ValuesOf(0) = ValuesOf(1)

\* some Delete has been handled by a server
SomeDeleteHandled == \E c \in DeleteClientIds(cfg) : ~FirstRequestWaiting(c)

\* C6: unsafe variant, two replicas: a state with no sync message in flight in
\* which the replicas differ is reachable (C6_Witness); it takes a Delete: as long
\* as no Delete has been handled, replicas with no sync message in flight agree.
C6_UnsafeDivergenceTakesDelete ==
  (cfg.variant = "broken" /\ ~InFlight(SyncTypes) /\ ValuesOf(0) # ValuesOf(1))
    => SomeDeleteHandled

\* nothing is left to deliver, and the two replicas differ
C6_Witness ==
  /\ cfg.variant = "broken"
  /\ Quiescent
  /\ ValuesOf(0) # ValuesOf(1)

\* C7 (as amended): unsafe variant: every replica holds at most one entry per key
\* in every reachable state.
C7_UnsafeOneEntryPerKey == cfg.variant = "broken" => only_one_of_each_key

\* the two replicas wrote concurrently and each has applied the other's PutSync
C7_Witness ==
  /\ cfg.variant = "broken"
  /\ \A c \in PutClientIds(cfg) : OnlyFirstRequestHandled(c)
  /\ MaxOpOf(0) = 1 /\ MaxOpOf(1) = 1
  /\ ~InFlight(SyncTypes)
  /\ ValuesOf(0) # {}

\* C7 (as claimed): unsafe variant: a state in which a replica holds more than one
\* entry for a key is reached.
C7_UnsafeReachesTwoEntries == <>(cfg.variant = "broken" /\ ~only_one_of_each_key)

\* C8: safe variant: a PutSync delivered again to a replica that has already
\* applied it leaves the replica's entries as they were.
C8_DuplicatePutSyncChangesNothing ==
  [][\A dst \in ServerIds(cfg) :
       RedeliverPutSync(dst) => actor_states'[dst].map.values = ValuesOf(dst)]_vars

\* C9: for every map state and every PutSync, receive_set applied twice leaves the
\* entries receive_set applied once leaves, under the safe and the unsafe rule.
C9_ReceiveSetIdempotent ==
  \A msg \in PutSyncs :
    LET once == Map_receive_set(cfg.variant, TheMap, msg.context, msg.timestamp,
                                msg.key, msg.value)
        twice == Map_receive_set(cfg.variant, once, msg.context, msg.timestamp,
                                 msg.key, msg.value)
    IN  twice.values = once.values

\* a map holding several entries, one of them the write of a PutSync whose context
\* names another entry it holds
C9_Witness ==
  /\ cfg.variant = "fixed"
  /\ Cardinality(TheMap.values) >= 2
  /\ \E msg \in PutSyncs :
       /\ WriteOf(msg.timestamp) \in TheMap.values
       /\ \E e \in TheMap.values : e[1] \in msg.context

\* neither message's context names the version the other carries
CausallyUnrelated(m1, m2) ==
  /\ m1.type = "PutSync" => m1.timestamp \notin m2.context
  /\ m2.type = "PutSync" => m2.timestamp \notin m1.context

\* what Peer::on_msg does with a sync message
ApplySync(variant, m, msg) ==
  IF msg.type = "PutSync"
  THEN Map_receive_set(variant, m, msg.context, msg.timestamp, msg.key, msg.value)
  ELSE Map_receive_delete(variant, m, msg.context)

\* applying m1 then m2 leaves the entries applying m2 then m1 leaves
Commute(m1, m2) ==
  ApplySync("fixed", ApplySync("fixed", TheMap, m1), m2).values
    = ApplySync("fixed", ApplySync("fixed", TheMap, m2), m1).values

\* C10: safe variant: for every map state and every two causally unrelated sync
\* messages, applying them in either order leaves the same entries. (The equation
\* is symmetric in m1 and m2, so a PutSync paired with a DeleteSync is taken once.)
C10_UnrelatedSyncsCommute ==
  cfg.variant = "fixed" =>
    /\ \A m1 \in PutSyncs, m2 \in PutSyncs \cup DeleteSyncs :
         CausallyUnrelated(m1, m2) => Commute(m1, m2)
    /\ \A m1 \in DeleteSyncs, m2 \in DeleteSyncs :
         CausallyUnrelated(m1, m2) => Commute(m1, m2)

\* a map that holds the writes of two causally unrelated PutSyncs, one of which
\* superseded an entry
C10_Witness ==
  /\ cfg.variant = "fixed"
  /\ \E m1 \in PutSyncs, m2 \in PutSyncs :
       /\ m1.timestamp # m2.timestamp
       /\ m1.context # {}
       /\ CausallyUnrelated(m1, m2)
       /\ WriteOf(m1.timestamp) \in TheMap.values
       /\ WriteOf(m2.timestamp) \in TheMap.values

\* the map after receive_set of a PutSync
AfterReceiveSet(msg) ==
  Map_receive_set(cfg.variant, TheMap, msg.context, msg.timestamp, msg.key, msg.value)

\* after the receive, every other entry held for the key of msg is older than msg
NewestForKey(msg) ==
  \A e \in AfterReceiveSet(msg).values :
    (e[2] = msg.key /\ e # <<msg.timestamp, msg.key, msg.value>>)
      => TimestampLt(e[1], msg.timestamp)

\* C11 (as amended): for every map state and every PutSync, receive_set followed at
\* once by get of its key returns the received value, provided every other entry
\* the replica then holds for the key has a smaller version than the received one.
C11_RoundTripWhenNewest ==
  \A msg \in PutSyncs :
    NewestForKey(msg) => Map_get(cfg.variant, AfterReceiveSet(msg), msg.key) = Some(msg.value)

\* a safe map that holds an older entry next to a received newer one, whose value
\* get returns
C11_Witness ==
  /\ cfg.variant = "fixed"
  /\ \E msg \in PutSyncs :
       /\ AfterReceiveSet(msg) = TheMap
       /\ NewestForKey(msg)
       /\ Cardinality({e \in TheMap.values : e[2] = msg.key}) >= 2
       /\ Map_get(cfg.variant, TheMap, msg.key) = Some(msg.value)

\* C11 (as claimed): for every map state and every PutSync, receive_set followed at
\* once by get of its key returns the received value.
C11_RoundTrip ==
  \A msg \in PutSyncs :
    Map_get(cfg.variant, AfterReceiveSet(msg), msg.key) = Some(msg.value)

\* the (server, position) pairs of the versions issued so far
IssuedAt == {p \in ServerIds(cfg) \X (1..(PutCount * DefaultPutClients)) : p[2] <= Len(issued[p[1]])}

\* C12: no two set operations, on one replica or on two, issue the same version,
\* and the versions one replica issues are strictly increasing in issue order.
C12_VersionsUniqueAndIncreasing ==
  /\ \A p \in IssuedAt, q \in IssuedAt :
       p # q => issued[p[1]][p[2]] # issued[q[1]][q[2]]
  /\ \A p \in IssuedAt, q \in IssuedAt :
       (p[1] = q[1] /\ p[2] < q[2]) => TimestampLt(issued[p[1]][p[2]], issued[q[1]][q[2]])

\* both replicas have issued two versions, the first of each with the same counter
C12_Witness ==
  /\ Len(issued[0]) = 2
  /\ Len(issued[1]) = 2
  /\ issued[0][1][1] = issued[1][1][1]

\* the sync messages a server of the variant can be sent: the unsafe delete sends
\* a DeleteSync of exactly one version
Receivable ==
  PutSyncs \cup {msg \in DeleteSyncs : cfg.variant = "broken" => Cardinality(msg.context) = 1}

\* the version a sync message carries: the timestamp of a PutSync, the versions of
\* the context of a DeleteSync
Incoming(msg) == IF msg.type = "PutSync" THEN {msg.timestamp} ELSE msg.context

\* the greatest counter among the previous counter and the incoming versions
AdvancedCounter(m, msg) ==
  LET counters == {m.max_op} \cup {t[1] : t \in Incoming(msg)}
  IN  CHOOSE c \in counters : \A d \in counters : d <= c

\* C13: every receive_set and receive_delete sets the counter to the greater of the
\* previous counter and the counter of the incoming version, never lowering it,
\* and the version the replica issues next has a counter above the counter of
\* every version the message named.
C13_CounterAdvance ==
  \A msg \in Receivable :
    LET after == ApplySync(cfg.variant, TheMap, msg)
        next == Map_set(cfg.variant, after, KeyB, CharA).timestamp
    IN  /\ after.max_op = AdvancedCounter(TheMap, msg)
        /\ after.max_op >= TheMap.max_op
        /\ \A t \in Incoming(msg) \cup msg.context : next[1] > t[1]

\* a map whose counter was raised by a version received from the other replica
\* above anything the map issued itself
C13_Witness ==
  \E t \in Timestamps :
    /\ t[2] = 1
    /\ t[1] >= 2
    /\ WriteOf(t) \in TheMap.values
    /\ TheMap.max_op = t[1]
    /\ \A e \in TheMap.values : e[1][2] = 0 => e[1][1] < t[1]

\* the flows to a server whose head is a message of the type
AtHead(type) ==
  {p \in DOMAIN network :
     p[2] \in ServerIds(cfg) /\ network[p] # <<>> /\ Head(network[p]).type = type}

\* what the server p[2] does with the message at the head of flow p
Handled(p) ==
  MyRegisterActor_on_msg(cfg, p[2], actor_states[p[2]], p[1], Head(network[p]))

\* C14: a server that handles Put(id, value) sets the value locally under a newly
\* issued version, sends exactly one PutOk(id), to the sender, and one PutSync
\* with that version, the key and the value to every other server and none to
\* itself, all in the one step.
C14_PutHandling ==
  \A p \in AtHead("Put") :
    LET src == p[1]
        dst == p[2]
        msg == Head(network[p])
        r == Handled(p)
        t == <<MaxOpOf(dst) + 1, dst>>
    IN  /\ <<t, KeyB, msg.value>> \in r.state.map.values
        /\ r.state.map.max_op = t[1]
        /\ Len(r.out) = cfg.servers
        /\ OutTo(r.out, src) = <<PutOk(msg.id)>>
        /\ OutTo(r.out, dst) = <<>>
        /\ \A q \in ServerIds(cfg) \ {dst} :
             LET sent == OutTo(r.out, q)
             IN  /\ Len(sent) = 1
                 /\ sent[1].type = "PutSync"
                 /\ sent[1].timestamp = t
                 /\ sent[1].key = KeyB
                 /\ sent[1].value = msg.value

\* server 0 has handled the first Put: its PutOk is on the way to the client and
\* a PutSync of version (1, 0) is on the way to each of the two other servers
C14_Witness ==
  /\ cfg.servers = 3
  /\ ValuesOf(0) = {<<<<1, 0>>, KeyB, CharA>>}
  /\ network[<<0, 3>>] = <<PutOk(3)>>
  /\ \A q \in {1, 2} :
       /\ Len(network[<<0, q>>]) = 1
       /\ network[<<0, q>>][1].type = "PutSync"
       /\ network[<<0, q>>][1].timestamp = <<1, 0>>

\* the sync messages of an output
SyncsOf(out) == SelectSeq(out, LAMBDA e : e.msg.type \in SyncTypes)

\* C15: a server that handles Delete(id) sends DeleteOk(id) to the sender whether
\* or not it holds the key; it sends a DeleteSync to every peer if it held an entry
\* for the key and no sync message if it did not, and a Delete of an absent key
\* leaves its entries and counter as they were.
C15_DeleteHandling ==
  \A p \in AtHead("Delete") :
    LET src == p[1]
        dst == p[2]
        msg == Head(network[p])
        r == Handled(p)
        held == \E e \in ValuesOf(dst) : e[2] = KeyB
    IN  /\ OutTo(r.out, src) = <<DeleteOk(msg.id)>>
        /\ held =>
             \A q \in ServerIds(cfg) \ {dst} :
               /\ Len(OutTo(r.out, q)) = 1
               /\ OutTo(r.out, q)[1].type = "DeleteSync"
        /\ ~held =>
             /\ SyncsOf(r.out) = <<>>
             /\ r.state = actor_states[dst]

\* C16: a server that handles Get(id) leaves its entries and counter as they were
\* and sends no sync message; if it holds an entry for the key it sends
\* GetOk(id, value of an entry it holds) to the sender and nothing else, and if
\* the key is absent it sends nothing at all.
C16_GetHandling ==
  \A p \in AtHead("Get") :
    LET src == p[1]
        dst == p[2]
        msg == Head(network[p])
        r == Handled(p)
        held == {e \in ValuesOf(dst) : e[2] = KeyB}
    IN  /\ r.state = actor_states[dst]
        /\ SyncsOf(r.out) = <<>>
        /\ held # {} => \E e \in held : r.out = Send(src, GetOk(msg.id, e[3]))
        /\ held = {} => r.out = <<>>

\* a put client's trailing Get was handled by a server that did not hold the key:
\* nothing is left in the network and the client still awaits the reply
C16_Witness ==
  /\ Quiescent
  /\ \E c \in PutClientIds(cfg) : actor_states[c].awaiting = Some((PutCount + 1) * c)

\* the replies a client could be sent, here addressed to a server
StrayReplies ==
  UNION {{PutOk(i), DeleteOk(i), GetOk(i, CharA)} : i \in ActorIds(cfg)}

\* the servers no client sends its requests to
UntargetedServers ==
  {s \in ServerIds(cfg) :
     \A c \in PutClientIds(cfg) \cup DeleteClientIds(cfg) : c % cfg.servers # s}

\* C17: a server that handles a PutSync or a DeleteSync applies receive_set or
\* receive_delete to its own map and sends nothing (no reply, no relay): a server
\* that only ever receives sync messages never has a message in the network; and
\* a PutOk, GetOk or DeleteOk handled by a server changes nothing and sends nothing.
C17_SyncAndReplyFrame ==
  /\ \A p \in AtHead("PutSync") \cup AtHead("DeleteSync") :
       /\ Handled(p).out = <<>>
       /\ Handled(p).state =
            [kind |-> "Server",
             map |-> ApplySync(cfg.variant, actor_states[p[2]].map, Head(network[p]))]
  /\ \A s \in UntargetedServers : \A q \in ActorIds(cfg) \ {s} : network[<<s, q>>] = <<>>
  /\ \A s \in ServerIds(cfg) : \A src \in ActorIds(cfg) \ {s} : \A msg \in StrayReplies :
       MyRegisterActor_on_msg(cfg, s, actor_states[s], src, msg)
         = [state |-> actor_states[s], out |-> <<>>]

\* server 2, which no client addresses, has applied a PutSync and a DeleteSync
C17_Witness ==
  /\ 2 \in UntargetedServers
  /\ \E m1 \in applied[2], m2 \in applied[2] : m1.type = "PutSync" /\ m2.type = "DeleteSync"

ClientIds == PutClientIds(cfg) \cup DeleteClientIds(cfg)

\* the request ids the clients of a run use: index, 2 * index, 3 * index
RequestIds == 0 .. ((PutCount + 1) * (DefaultServers + DefaultPutClients + DefaultDeleteClients))

\* every kind of message an actor can be handed
AnyMessages ==
  UNION {{Put(i, CharA), Get(i), Delete(i), PutOk(i), GetOk(i, CharA), DeleteOk(i)} :
           i \in RequestIds}
    \cup {PutSync({}, <<1, 0>>, KeyB, CharA), DeleteSync({<<1, 0>>})}

\* msg is a reply carrying the request id client c awaits
MatchesAwaited(c, msg) ==
  /\ actor_states[c].awaiting # None
  /\ msg.type \in {"PutOk", "GetOk", "DeleteOk"}
  /\ msg.id = actor_states[c].awaiting[1]

\* the messages between client c and the servers that are in the network
InFlightOf(c) ==
  {p \in DOMAIN network : (p[1] = c \/ p[2] = c) /\ network[p] # <<>>}

\* C18: every client has at most one request in flight or answered by a reply still
\* in flight; a message that is not a reply with the awaited request id (another
\* id, a reply while Idle, a non-reply) leaves the client's state unchanged and
\* sends nothing, so a client sends its next request only in the step that hands
\* it the awaited reply, and then it sends one request, to a server.
C18_ClientSequencing ==
  \A c \in ClientIds :
    /\ Cardinality(InFlightOf(c)) <= 1
    /\ \A p \in InFlightOf(c) : Len(network[p]) = 1
    /\ \A src \in ServerIds(cfg) : \A msg \in AnyMessages :
         LET r == MyRegisterActor_on_msg(cfg, c, actor_states[c], src, msg)
         IN  /\ ~MatchesAwaited(c, msg) => r = [state |-> actor_states[c], out |-> <<>>]
             /\ Len(r.out) <= 1
             /\ \A i \in 1..Len(r.out) :
                  r.out[i].dst \in ServerIds(cfg) /\ r.out[i].msg.type \in RequestTypes

\* a delete client has been handed the DeleteOk of its second Delete, which is not
\* the reply it awaits: every message is delivered and it still awaits the first id
C18_Witness ==
  /\ Quiescent
  /\ \E c \in DeleteClientIds(cfg) : actor_states[c].awaiting = Some(c)
  /\ \A c \in PutClientIds(cfg) : actor_states[c].awaiting = None

\* C19: under fair delivery every put client and every delete client is eventually
\* Idle (awaiting = None).
C19_ClientsReachIdle ==
  <>(\A c \in ClientIds : actor_states[c].awaiting = None)

\* the number of requests client c had sent before the request with this id: the
\* ids of a client are index, 2 * index, 3 * index
OperationsBefore(c, id) == (id \div c) - 1

\* C20: every request of a client is sent to the server
\* (client index + operation count) mod server count, the operation count being
\* the number of requests the client sent before it, so consecutive requests of
\* a client go to different servers.
C20_TargetVaries ==
  \A c \in ClientIds : \A s \in ServerIds(cfg) :
    \A i \in 1..Len(network[<<c, s>>]) :
      s = (c + OperationsBefore(c, network[<<c, s>>][i].id)) % cfg.servers

(***************************************************************************)
(* One map of replica 0 driven through the Map trait over two keys: the    *)
(* local operations on any key, and the syncs replica 1 can send.          *)
(***************************************************************************)
MaxVersion == 3

\* the trait's key is any char: 'b' and the char after it
KeysOfMap == {KeyB, KeyB + 1}

\* the versions replica 1 can have issued; each names one write of replica 1
RemoteTimestamps == (1..MaxVersion) \X {1}
RemoteWrite(timestamp) ==
  <<timestamp, IF timestamp[1] % 2 = 1 THEN KeyB ELSE KeyB + 1, CharA>>

\* the versions of replica 0 and of replica 1 with counters up to MaxVersion
KeyedTimestamps == (1..MaxVersion) \X (0..1)

\* a set or delete builds its context from the entries of one key, so every entry
\* held under a version of the context has that key, and a version of replica 1
\* in the context names a write of that key
ContextOfKey(context, key) ==
  /\ \A e \in TheMap.values : e[1] \in context => e[2] = key
  /\ \A t \in context \cap RemoteTimestamps : RemoteWrite(t)[2] = key

\* the PutSyncs replica 1 can send: the context is what it held for the key when
\* new_timestamp issued the version, so its counters are below the version's
RemotePutSyncs ==
  {PutSync(p[1], p[2], RemoteWrite(p[2])[2], RemoteWrite(p[2])[3]) :
     p \in {q \in (SUBSET KeyedTimestamps) \X RemoteTimestamps :
              \A t \in q[1] : t[1] < q[2][1]}}
RemoteDeleteSyncs == {DeleteSync(context) : context \in SUBSET KeyedTimestamps}

KeyedSet(key, value) ==
  /\ TheMap.max_op < MaxVersion
  /\ MapBecomes(Map_set(cfg.variant, TheMap, key, value).map)

KeyedDelete(key) ==
  /\ key \in KeysOfMap
  /\ MapBecomes(Map_delete(cfg.variant, TheMap, key).map)

KeyedReceiveSet(msg) ==
  /\ ContextOfKey(msg.context, msg.key)
  /\ MapBecomes(Map_receive_set(cfg.variant, TheMap, msg.context, msg.timestamp,
                                msg.key, msg.value))

\* BrokenMap::receive_delete reads timestamp[0] of the one-element vector
\* BrokenMap::delete returns
KeyedReceiveDelete(msg) ==
  /\ cfg.variant = "broken" => Cardinality(msg.context) = 1
  /\ \E key \in KeysOfMap : ContextOfKey(msg.context, key)
  /\ MapBecomes(Map_receive_delete(cfg.variant, TheMap, msg.context))

NextKeys ==
  \/ \E key \in KeysOfMap, value \in Values : KeyedSet(key, value)
  \/ \E key \in KeysOfMap : KeyedDelete(key)
  \/ \E msg \in RemotePutSyncs : KeyedReceiveSet(msg)
  \/ \E msg \in RemoteDeleteSyncs : KeyedReceiveDelete(msg)

SpecKeys == InitMap /\ [][NextKeys]_vars

\* the entries the map holds for a key
EntriesOf(m, key) == {e \in m.values : e[2] = key}

\* C21: for every state of a safe replica, set(key, value) issues the version
\* (previous counter + 1, replica identity), returns as context exactly the
\* versions of the entries held for the key, removes exactly those entries, and
\* leaves the new entry as the only entry of the key, the entries of the other
\* keys unchanged.
C21_SafeLocalSet ==
  cfg.variant = "fixed" =>
    \A key \in KeysOfMap, value \in Values :
      LET r == Map_set(cfg.variant, TheMap, key, value)
      IN  /\ r.timestamp = <<TheMap.max_op + 1, TheMap.actor_id>>
          /\ r.map.max_op = TheMap.max_op + 1
          /\ r.context = {e[1] : e \in EntriesOf(TheMap, key)}
          /\ r.map.values =
               (TheMap.values \ EntriesOf(TheMap, key)) \cup {<<r.timestamp, key, value>>}
          /\ EntriesOf(r.map, key) = {<<r.timestamp, key, value>>}
          /\ \A other \in KeysOfMap \ {key} :
               EntriesOf(r.map, other) = EntriesOf(TheMap, other)

\* a safe map as set leaves it after replacing two concurrent entries of 'b' by
\* the entry it issued, the entry of the other key still held
C21_Witness ==
  /\ cfg.variant = "fixed"
  /\ EntriesOf(TheMap, KeyB + 1) # {}
  /\ \E value \in Values :
       LET before == [TheMap EXCEPT
                        !.max_op = 2,
                        !.values = EntriesOf(TheMap, KeyB + 1)
                                     \cup {<<<<1, 0>>, KeyB, CharZ>>, RemoteWrite(<<1, 1>>)}]
           r == Map_set(cfg.variant, before, KeyB, value)
       IN  /\ r.map = TheMap
           /\ r.context = {<<1, 0>>, <<1, 1>>}

\* C22: on a safe replica that holds no entry for the key, delete(key) changes
\* nothing and returns no context, so that nothing is broadcast for it; when the
\* key is present it returns the versions of all the entries held for the key.
C22_SafeDeleteOfAbsentKey ==
  cfg.variant = "fixed" =>
    \A key \in KeysOfMap :
      LET r == Map_delete(cfg.variant, TheMap, key)
      IN  IF EntriesOf(TheMap, key) = {}
          THEN r.context = None /\ r.map = TheMap
          ELSE r.context = Some({e[1] : e \in EntriesOf(TheMap, key)})

\* C23: in both variants, immediately after a local delete(key) get(key) returns
\* no value and the entries of every other key are unchanged; immediately after a
\* local set(key, v) get(key) returns v.
C23_LocalDeleteRemovesKey ==
  \A key \in KeysOfMap :
    LET deleted == Map_delete(cfg.variant, TheMap, key).map
    IN  /\ Map_get(cfg.variant, deleted, key) = None
        /\ \A other \in KeysOfMap \ {key} :
             EntriesOf(deleted, other) = EntriesOf(TheMap, other)
        /\ \A v \in Values :
             Map_get(cfg.variant, Map_set(cfg.variant, TheMap, key, v).map, key) = Some(v)

\* an unsafe map as delete leaves it after removing the entry of 'b' it had
\* taken from the other replica, the entry of the other key still held
C23_Witness ==
  /\ cfg.variant = "broken"
  /\ EntriesOf(TheMap, KeyB + 1) # {}
  /\ LET before == [TheMap EXCEPT !.values = @ \cup {RemoteWrite(<<1, 1>>)}]
     IN  /\ Map_get(cfg.variant, before, KeyB) = Some(CharA)
         /\ Map_delete(cfg.variant, before, KeyB).map = TheMap
         /\ Map_get(cfg.variant, TheMap, KeyB) = None

\* every entry the map holds for the key of msg has a version below the one of msg
AllOlder(m, msg) ==
  \A e \in EntriesOf(m, msg.key) : TimestampLt(e[1], msg.timestamp)

\* C24: the unsafe receive_set applies the incoming (version, key, value) if and
\* only if every entry held for the key has a strictly smaller version (so also
\* when none is held); when applied, the entries of the key are replaced by the
\* incoming entry; when not applied, the entries are unchanged; in both cases the
\* counter is advanced to the greater of itself and the incoming counter.
C24_UnsafeReceiveSetRule ==
  cfg.variant = "broken" =>
    \A msg \in RemotePutSyncs :
      LET after == Map_receive_set(cfg.variant, TheMap, msg.context, msg.timestamp,
                                   msg.key, msg.value)
      IN  /\ AllOlder(TheMap, msg) =>
               after.values = (TheMap.values \ EntriesOf(TheMap, msg.key))
                                \cup {<<msg.timestamp, msg.key, msg.value>>}
          /\ ~AllOlder(TheMap, msg) => after.values = TheMap.values
          /\ after.max_op = Max(TheMap.max_op, msg.timestamp[1])

\* an unsafe map as receive_set leaves it after replacing a local entry of 'b'
\* by a newer one of the other replica, its counter raised to the incoming one;
\* an older write of the other replica is now refused
C24_Witness ==
  /\ cfg.variant = "broken"
  /\ TheMap.max_op = 3
  /\ LET before == [TheMap EXCEPT
                      !.max_op = 1,
                      !.values = (@ \ {RemoteWrite(<<3, 1>>)}) \cup {<<<<1, 0>>, KeyB, CharZ>>}]
     IN  Map_receive_set(cfg.variant, before, {}, <<3, 1>>, KeyB, CharA) = TheMap
  /\ \E msg \in RemotePutSyncs :
       /\ msg.key = KeyB
       /\ ~AllOlder(TheMap, msg)
       /\ msg.timestamp # <<3, 1>>

(***************************************************************************)
(* Timeouts (MyRegisterActor::on_timeout).  No handler sets a timer, so    *)
(* the checker of main.rs never takes a timeout step; here a timeout may   *)
(* fire at any actor in any state of a run with intermediate gets.         *)
(***************************************************************************)
\* Peer defines no on_timeout of its own: the default of the Actor trait, which
\* leaves the state borrowed and sends nothing
Peer_on_timeout(id, state) == [state |-> state, out |-> <<>>]

\* mutant: a client that awaits a reply sends its request again
MyRegisterActor_on_timeout_resending(c, id, state) ==
  LET a == Actor(c, id)
  IN  IF a.kind # "Server" /\ state.kind = a.kind /\ state.awaiting # None
      THEN [state |-> state, out |-> Send(id % a.server_count, Get(state.awaiting[1]))]
      ELSE [state |-> state, out |-> <<>>]

MyRegisterActor_on_timeout(c, id, state) ==
  LET a == Actor(c, id)
  IN  CASE a.kind = "Server" /\ state.kind = "Server" ->
             LET r == Peer_on_timeout(id, state.map)
             IN  [state |-> [kind |-> "Server", map |-> r.state], out |-> r.out]
        [] OTHER -> [state |-> state, out |-> <<>>]

Timeout(id) ==
  /\ id \in ActorIds(cfg)
  /\ LET r == MyRegisterActor_on_timeout(cfg, id, actor_states[id])
     IN  /\ actor_states' = [actor_states EXCEPT ![id] = r.state]
         /\ network' = Enqueue(network, id, r.out)
  /\ UNCHANGED <<cfg, applied, issued>>

NextTimeouts == NextGets \/ \E id \in AllIds : Timeout(id)

SpecTimeouts == InitGets /\ [][NextTimeouts]_vars

\* C25: an on_timeout step of any actor, server or put client or delete client, in
\* any state leaves the state of that actor unchanged and sends no message.
C25_TimeoutsAreNoOps ==
  \A id \in ActorIds(cfg) :
    MyRegisterActor_on_timeout(cfg, id, actor_states[id]) =
      [state |-> actor_states[id], out |-> <<>>]

\* a state in the middle of a run: a server holds an entry, a put client awaits
\* the reply to its second request and the delete client awaits a reply
C25_Witness ==
  /\ \E s \in ServerIds(cfg) : ValuesOf(s) # {}
  /\ \E c \in PutClientIds(cfg) :
       actor_states[c].awaiting # None /\ actor_states[c].op_count = 2
  /\ \E c \in DeleteClientIds(cfg) : actor_states[c].awaiting # None

\* C26: in both variants and in every reachable state, the counter of a replica
\* is at least the counter of every version in its entry set, so the version a
\* local set issues next is strictly greater than every version the replica holds.
C26_CounterCoversHeldVersions ==
  /\ \A e \in TheMap.values : e[1][1] <= TheMap.max_op
  /\ \A key \in KeysOfMap, value \in Values :
       \A e \in TheMap.values :
         TimestampLt(e[1], Map_set(cfg.variant, TheMap, key, value).timestamp)

\* a map that took a write of the other replica with a counter above its own and
\* then issued a version for the other key: both entries are held
C26_Witness ==
  /\ RemoteWrite(<<2, 1>>) \in TheMap.values
  /\ \E value \in Values : <<<<3, 0>>, KeyB, value>> \in TheMap.values
  /\ \A e \in TheMap.values : e[1][1] >= 2

\* the same entries held by another replica: identity and counter differ
SameEntriesElsewhere(m) ==
  {[m EXCEPT !.actor_id = p[1], !.max_op = p[2]] :
     p \in (0..1) \X (m.max_op..(MaxVersion + 1))}

\* C27: on a safe replica get(key) returns nothing when no entry is held for
\* the key, and otherwise the value of the entry of the key with the greatest
\* version (counter first, then replica identity), also when several entries are
\* held; so two replicas that hold equal entry sets return the same on get(key).
C27_GetReturnsGreatestVersion ==
  cfg.variant = "fixed" =>
    \A key \in KeysOfMap :
      /\ IF EntriesOf(TheMap, key) = {}
         THEN Map_get(cfg.variant, TheMap, key) = None
         ELSE \E e \in EntriesOf(TheMap, key) :
                /\ \A f \in EntriesOf(TheMap, key) : f = e \/ TimestampLt(f[1], e[1])
                /\ Map_get(cfg.variant, TheMap, key) = Some(e[3])
      /\ \A m \in SameEntriesElsewhere(TheMap) :
           Map_get(cfg.variant, m, key) = Map_get(cfg.variant, TheMap, key)

\* a safe map that holds for 'b' its own second write and a concurrent first write
\* of the other replica; get returns the value of its own, the greater version
C27_Witness ==
  /\ cfg.variant = "fixed"
  /\ EntriesOf(TheMap, KeyB) = {<<<<2, 0>>, KeyB, CharZ>>, RemoteWrite(<<1, 1>>)}
  /\ Map_get(cfg.variant, TheMap, KeyB) = Some(CharZ)

====
